---- MODULE Spec2Model ----
(***************************************************************************)
(* Model of the avvideocompare element (gstavvidcmp.c).                    *)
(*                                                                         *)
(* Three threads use the element: the aggregator's streaming thread that   *)
(* calls aggregate_frames ("agg"), an application thread that sets and     *)
(* gets the two properties ("app"), and a sink-pad thread that delivers    *)
(* events ("pad").  Every handler takes the element's object lock, so a    *)
(* handler is modelled as an entry step that acquires the lock followed    *)
(* by the steps of its body, the last of which releases the lock.          *)
(*                                                                         *)
(* The libav filter graph is modelled by what the element can observe of   *)
(* it: the argument string it was built from, the three filter contexts,   *)
(* the two buffer-source FIFOs and the lines the compare filter writes.    *)
(***************************************************************************)
EXTENDS Integers, Sequences, FiniteSets, TLC

(* ---- bounds of the model ---- *)
MaxCalls == 2

(* ---- program constants ---- *)
GST_FFMPEGVIDCMP_METHOD_SSIM == 0
GST_FFMPEGVIDCMP_METHOD_PSNR == 1
DEFAULT_STATS_FILE == "-"
DEFAULT_VIDCMP_METHOD == GST_FFMPEGVIDCMP_METHOD_SSIM
AV_PIX_FMT_NONE == "AV_PIX_FMT_NONE"

Methods == {GST_FFMPEGVIDCMP_METHOD_SSIM, GST_FFMPEGVIDCMP_METHOD_PSNR}
StatsFiles == {DEFAULT_STATS_FILE, "stats.log"}
Threads == {"agg", "app", "pad"}
Pads == {1, 2}

(* caps that gst_video_info_from_caps can parse *)
VideoCaps ==
  { [width |-> 16, height |-> 16, fps_n |-> 30, fps_d |-> 1, format |-> "I420"],
    [width |-> 32, height |-> 24, fps_n |-> 25, fps_d |-> 1, format |-> "GRAY8"],
    [width |-> 16, height |-> 16, fps_n |-> 30, fps_d |-> 1, format |-> "ENCODED"] }
NoCaps == [width |-> 0, height |-> 0, fps_n |-> 0, fps_d |-> 1, format |-> "NONE"]

(* outcomes of the library calls made by init_filter_graph *)
InitOutcomes == {"ok", "format_fail", "alloc_fail", "parse_fail", "unlinked",
                 "config_fail", "ctx_fail"}
(* outcomes of the library calls made by process_filter_graph *)
ProcOutcomes == {"ok", "add1_fail", "add2_fail", "frame_alloc_fail",
                 "pull_fail_keep", "pull_fail_drop"}
(* what a call on a NULL filter context does: undefined behaviour *)
UBOutcomes == {"crash", "error"}
CtxNames == {"in1", "in2", "out"}

(* ---- what the application thread asks and is answered ---- *)
NoReq == [op |-> "none", prop |-> "none", val |-> 0]
NoRet == [op |-> "none", prop |-> "none", val |-> 0, old |-> 0]

(* ---- the properties in effect when the first pair was processed ---- *)
NoFirst == [method |-> -1, stats_file |-> ""]

(* ---- what sink_event answers: its return value, whether the event went to
   the parent handler, whether the caps were parsed, what setcaps returned,
   and the negotiated format before the event ---- *)
NoGeom == [width |-> 0, height |-> 0, fps_num |-> 0, fps_denom |-> 0, pixfmt |-> ""]
NoEvRet == [ret |-> TRUE, forwarded |-> FALSE, kind |-> "none", parsed |-> FALSE,
            setcaps |-> FALSE, old |-> NoGeom]

(* ---- frames ---- *)
NoFrame == [pad |-> 0, n |-> 0]
Frame(p, k) == [pad |-> p, n |-> k]

(* ---- lines of the stats file ---- *)
NoLine == [ref |-> NoFrame, cmp |-> NoFrame, method |-> "", stats_file |-> "",
           width |-> 0, height |-> 0, pixfmt |-> ""]

VARIABLES
  width, height, fps_num, fps_denom, pixfmt,   \* negotiated format
  filter_graph, in1_ctx, in2_ctx, out_ctx,     \* libav objects of the element
  method, stats_file,                          \* the two properties
  fifo1, fifo2, written,                       \* inside the graph: queued frames; the line written by this call
  lock, pc, crashed, eos,                      \* object lock, threads, process, pads
  prepared, outbuf, procres, res,              \* aggregate_frames: the call in progress
  calls, first,                                \* aggregate_frames: calls made; the properties at the first pair
  req, appret,                                 \* set_property / get_property
  ev, evret,                                   \* sink_event
  evpad, sinkcaps                              \* the pad of the event (0: not recorded); the caps accepted on each pad

elem == <<width, height, fps_num, fps_denom, pixfmt, filter_graph, in1_ctx,
          in2_ctx, out_ctx, method, stats_file>>
geom == <<width, height, fps_num, fps_denom, pixfmt>>
ctxs == <<filter_graph, in1_ctx, in2_ctx, out_ctx>>
props == <<method, stats_file>>
avv == <<fifo1, fifo2, written>>
call == <<prepared, outbuf, procres, res>>
aggv == <<call, calls, first>>
appv == <<req, appret>>
padv == <<ev, evret, evpad, sinkcaps>>
vars == <<elem, avv, lock, pc, crashed, eos, aggv, appv, padv>>

(* ---- the filter graph as the element sees it ---- *)
NoGraph == [allocated |-> FALSE]

(* g_enum_get_value: the nick of a registered value, "" for NULL *)
EnumNick(m) ==
  IF m = GST_FFMPEGVIDCMP_METHOD_SSIM THEN "ssim"
  ELSE IF m = GST_FFMPEGVIDCMP_METHOD_PSNR THEN "psnr"
  ELSE ""

(* the graph allocated by init_filter_graph, with the arguments formatted
   by _make_str from the element's fields *)
Graph ==
  [allocated |-> TRUE, width |-> width, height |-> height, pixfmt |-> pixfmt,
   method |-> EnumNick(method), stats_file |-> stats_file]

(* gst_ffmpeg_videoformat_to_pixfmt *)
gst_ffmpeg_videoformat_to_pixfmt(f) ==
  IF f = "I420" THEN "AV_PIX_FMT_YUV420P"
  ELSE IF f = "GRAY8" THEN "AV_PIX_FMT_GRAY8"
  ELSE AV_PIX_FMT_NONE

(* gst_ffmpegvidcmp_reset: the values it stores *)
gst_ffmpegvidcmp_reset ==
  [width |-> -1, height |-> -1, fps_num |-> 0, fps_denom |-> 1,
   pixfmt |-> AV_PIX_FMT_NONE, in1_ctx |-> FALSE, in2_ctx |-> FALSE,
   out_ctx |-> FALSE, filter_graph |-> NoGraph]

(* gst_ffmpegvidcmp_init: reset, then the default property values *)
Init ==
  /\ width = gst_ffmpegvidcmp_reset.width
  /\ height = gst_ffmpegvidcmp_reset.height
  /\ fps_num = gst_ffmpegvidcmp_reset.fps_num
  /\ fps_denom = gst_ffmpegvidcmp_reset.fps_denom
  /\ pixfmt = gst_ffmpegvidcmp_reset.pixfmt
  /\ in1_ctx = gst_ffmpegvidcmp_reset.in1_ctx
  /\ in2_ctx = gst_ffmpegvidcmp_reset.in2_ctx
  /\ out_ctx = gst_ffmpegvidcmp_reset.out_ctx
  /\ filter_graph = gst_ffmpegvidcmp_reset.filter_graph
  /\ stats_file = DEFAULT_STATS_FILE
  /\ method = DEFAULT_VIDCMP_METHOD
  /\ fifo1 = <<>> /\ fifo2 = <<>> /\ written = NoLine
  /\ lock = "none"
  /\ pc = [t \in Threads |-> "idle"]
  /\ crashed = FALSE
  /\ eos = [p \in Pads |-> FALSE]
  /\ prepared = [p \in Pads |-> NoFrame]
  /\ outbuf = NoFrame
  /\ procres = "none"
  /\ res = "none"
  /\ calls = 0
  /\ first = NoFirst
  /\ req = NoReq
  /\ appret = NoRet
  /\ ev = NoCaps
  /\ evret = NoEvRet
  /\ evpad = 0
  /\ sinkcaps = [p \in Pads |-> NoCaps]


(* ---- init_filter_graph ------------------------------------------------ *)
(* The element fields and the return value after init_filter_graph, given
   the outcome `io` of the library calls and, for a failed context lookup,
   the set `miss` of contexts avfilter_graph_get_filter did not find.      *)
InitResult(fg, c1, c2, c3, r, msg) ==
  [fg |-> fg, c1 |-> c1, c2 |-> c2, c3 |-> c3, res |-> r, msg |-> msg]

init_filter_graph(io, miss) ==
  IF EnumNick(method) = ""
  THEN InitResult(filter_graph, in1_ctx, in2_ctx, out_ctx, -1, "unknown compare method")
  ELSE IF io = "format_fail"
  THEN InitResult(filter_graph, in1_ctx, in2_ctx, out_ctx, -1,
                  "failed to format filter graph arguments")
  ELSE IF io = "alloc_fail"
  THEN InitResult(NoGraph, in1_ctx, in2_ctx, out_ctx, -1, "failed to allocate filter graph")
  ELSE IF io = "parse_fail"
  THEN InitResult(Graph, in1_ctx, in2_ctx, out_ctx, -1,
                  "failed to parse filter graph")
  ELSE IF io = "unlinked"
  THEN InitResult(Graph, in1_ctx, in2_ctx, out_ctx, -1,
                  "unlinked inputs/outputs in filter graph")
  ELSE IF io = "config_fail"
  THEN InitResult(Graph, in1_ctx, in2_ctx, out_ctx, -1,
                  "failed to configure filter graph")
  ELSE IF io = "ctx_fail"
  THEN InitResult(Graph, "in1" \notin miss, "in2" \notin miss,
                  "out" \notin miss, -1, "failed to get filter contexts")
  ELSE InitResult(Graph, TRUE, TRUE, TRUE, 0, "")

(* ---- process_filter_graph --------------------------------------------- *)
(* A call on a NULL filter context: the process dies, or the call returns
   an error.                                                               *)
NullContextCall(s, ub) ==
  IF ub = "crash" THEN [s EXCEPT !.crashed = TRUE] ELSE [s EXCEPT !.res = -1]

(* the line the compare filter writes for the pair at the head of its two
   inputs, with the method and stats file the graph was built with         *)
StatsLine(fg, f1, f2) ==
  [ref |-> Head(f1), cmp |-> Head(f2), method |-> fg.method,
   stats_file |-> fg.stats_file, width |-> fg.width, height |-> fg.height,
   pixfmt |-> fg.pixfmt]

(* out = av_frame_alloc () and the three stores through out, which is not
   tested: when av_frame_alloc returns NULL the stores go through a NULL
   pointer and the process dies                                            *)
av_frame_alloc(s, po) ==
  IF po = "frame_alloc_fail" THEN [s EXCEPT !.crashed = TRUE] ELSE s

(* av_buffersink_get_frame on a graph whose two inputs both hold a frame *)
av_buffersink_get_frame(s, po) ==
  IF po = "pull_fail_keep" THEN [s EXCEPT !.res = -1]
  ELSE IF po = "pull_fail_drop"
  THEN [s EXCEPT !.f1 = Tail(@), !.f2 = Tail(@), !.res = -1]
  ELSE [s EXCEPT !.f1 = Tail(@), !.f2 = Tail(@), !.res = 0,
                 !.line = StatsLine(s.fg, s.f1, s.f2)]

process_filter_graph(in1, in2, io, miss, po, ub) ==
  LET i == IF ~filter_graph.allocated
           THEN init_filter_graph(io, miss)
           ELSE InitResult(filter_graph, in1_ctx, in2_ctx, out_ctx, 0, "")
      s0 == [fg |-> i.fg, c1 |-> i.c1, c2 |-> i.c2, c3 |-> i.c3,
             f1 |-> fifo1, f2 |-> fifo2, line |-> written, res |-> i.res,
             crashed |-> FALSE, msg |-> i.msg]
  IN IF i.res < 0 THEN s0
     ELSE IF ~s0.c1 THEN NullContextCall(s0, ub)
     ELSE IF po = "add1_fail" THEN [s0 EXCEPT !.res = -1]
     ELSE LET s1 == [s0 EXCEPT !.f1 = Append(@, in1)] IN
       IF ~s1.c2 THEN NullContextCall(s1, ub)
       ELSE IF po = "add2_fail" THEN [s1 EXCEPT !.res = -1]
       ELSE LET s2 == av_frame_alloc([s1 EXCEPT !.f2 = Append(@, in2)], po) IN
         IF s2.crashed THEN s2
         ELSE IF ~s2.c3 THEN NullContextCall(s2, ub)
         ELSE av_buffersink_get_frame(s2, po)

(* ---- gst_ffmpegvidcmp_aggregate_frames -------------------------------- *)
(* mutant: only the compared frame is tested *)
BothFrames_cmp_only(r, c) == c # NoFrame

(* the test `ref && cmp` *)
BothFrames(r, c) == r # NoFrame /\ c # NoFrame

(* mutant: the compared frame is copied to the output *)
CopiedFrame_cmp(r, c) == c

(* gst_video_frame_copy (&out, ref): the content written to the output *)
CopiedFrame(r, c) == r

(* mutant: a missing frame is not reported as end-of-stream *)
MissingFrameFlow_ok == "GST_FLOW_OK"

(* the flow of the else branch, when a prepared frame is missing *)
MissingFrameFlow == "GST_FLOW_EOS"

(* mutant: aggregate_frames runs without taking the object lock *)
AggLockOwner_none == "none"

(* the owner of the object lock while aggregate_frames runs *)
AggLockOwner == "agg"

(* the aggregator prepares frames only once caps with a size and a
   supported pixel format have been stored                                 *)
Negotiated == width > 0 /\ height > 0 /\ pixfmt # AV_PIX_FMT_NONE

(* GST_OBJECT_LOCK, then get both prepared frames *)
AggEnter ==
  \E has1 \in BOOLEAN, has2 \in BOOLEAN :
    /\ ~crashed /\ pc["agg"] = "idle" /\ calls < MaxCalls
    /\ lock = "none"
    /\ eos[1] => ~has1
    /\ eos[2] => ~has2
    /\ (has1 \/ has2) => Negotiated
    /\ lock' = AggLockOwner
    /\ calls' = calls + 1
    /\ prepared' = [p \in Pads |->
                      IF (p = 1 /\ has1) \/ (p = 2 /\ has2)
                      THEN Frame(p, calls + 1) ELSE NoFrame]
    /\ outbuf' = NoFrame
    /\ procres' = "none"
    /\ res' = "GST_FLOW_OK"
    /\ pc' = [pc EXCEPT !["agg"] = "frames"]
    /\ UNCHANGED <<elem, avv, crashed, eos, first, appv, padv>>

(* avfilter_graph_parse2 rejects the arguments formatted from the element's
   fields when the size is not positive or the pixel format is none        *)
ArgsParsable == width > 0 /\ height > 0 /\ pixfmt # AV_PIX_FMT_NONE

(* One choice of (io, miss, po, ub) for each distinct run of the library
   calls: an outcome of a call that is not made is fixed to its first value. *)
RelevantOutcome(io, miss, po, ub) ==
  /\ (~filter_graph.allocated /\ ~ArgsParsable)
       => io \in {"format_fail", "alloc_fail", "parse_fail"}
  /\ filter_graph.allocated => io = "ok"
  /\ (filter_graph.allocated \/ io # "ctx_fail") => miss = {"in1"}
  /\ (~filter_graph.allocated /\ io # "ok") => po = "ok"
  /\ (~filter_graph.allocated \/ (in1_ctx /\ in2_ctx /\ out_ctx)) => ub = "crash"
  /\ po = "frame_alloc_fail" => ub = "crash"
  /\ (filter_graph.allocated /\ ~in1_ctx) => po = "ok"
  /\ (filter_graph.allocated /\ in1_ctx /\ ~in2_ctx) => po \in {"ok", "add1_fail"}
  /\ (filter_graph.allocated /\ in1_ctx /\ in2_ctx /\ ~out_ctx)
       => po \in {"ok", "add1_fail", "add2_fail", "frame_alloc_fail"}

(* process_filter_graph; when it fails (procres is "init_failed" when
   init_filter_graph logged the error, "failed" otherwise) the warning
   "Could not process filter graph" is logged                              *)
AggProcess ==
  /\ ~crashed /\ pc["agg"] = "frames"
  /\ BothFrames(prepared[1], prepared[2])
  /\ \E io \in InitOutcomes, miss \in (SUBSET CtxNames) \ {{}},
        po \in ProcOutcomes, ub \in UBOutcomes :
    /\ RelevantOutcome(io, miss, po, ub)
    /\ LET s == process_filter_graph(prepared[1], prepared[2], io, miss, po, ub) IN
       /\ filter_graph' = s.fg
       /\ in1_ctx' = s.c1 /\ in2_ctx' = s.c2 /\ out_ctx' = s.c3
       /\ fifo1' = s.f1 /\ fifo2' = s.f2 /\ written' = s.line
       /\ crashed' = s.crashed
       /\ IF s.crashed
          THEN UNCHANGED <<pc, procres, first>>
          ELSE /\ pc' = [pc EXCEPT !["agg"] = "map"]
               /\ procres' = IF s.res >= 0 THEN "ok"
                             ELSE IF s.msg # "" THEN "init_failed" ELSE "failed"
               /\ first' = IF first = NoFirst
                           THEN [method |-> method, stats_file |-> stats_file]
                           ELSE first
    /\ UNCHANGED <<geom, props, lock, eos, prepared, outbuf, res, calls, appv, padv>>

(* gst_video_frame_map of the output buffer succeeds or fails; then
   gst_video_frame_copy, or res = GST_FLOW_ERROR and goto done            *)
AggCopy ==
  \E mapped \in BOOLEAN :
    /\ ~crashed /\ pc["agg"] = "map"
    /\ IF mapped
       THEN /\ outbuf' = CopiedFrame(prepared[1], prepared[2])
            /\ res' = res
       ELSE /\ outbuf' = outbuf
            /\ res' = "GST_FLOW_ERROR"
    /\ pc' = [pc EXCEPT !["agg"] = "done"]
    /\ UNCHANGED <<elem, avv, lock, crashed, eos, prepared, procres, calls,
                   first, appv, padv>>

(* the else branch: a prepared frame is missing *)
AggEos ==
  /\ ~crashed /\ pc["agg"] = "frames"
  /\ ~BothFrames(prepared[1], prepared[2])
  /\ res' = MissingFrameFlow
  /\ pc' = [pc EXCEPT !["agg"] = "done"]
  /\ UNCHANGED <<elem, avv, lock, crashed, eos, prepared, outbuf, procres,
                 calls, first, appv, padv>>

(* done: GST_OBJECT_UNLOCK and return res (the value of res in the "done"
   state); the frames and the output buffer of the call go back to the
   aggregator                                                              *)
AggDone ==
  /\ ~crashed /\ pc["agg"] = "done"
  /\ lock' = "none"
  /\ prepared' = [p \in Pads |-> NoFrame]
  /\ outbuf' = NoFrame
  /\ procres' = "none"
  /\ res' = "none"
  /\ written' = NoLine
  /\ pc' = [pc EXCEPT !["agg"] = "idle"]
  /\ UNCHANGED <<elem, fifo1, fifo2, crashed, eos, calls, first, appv, padv>>

(* ---- gst_ffmpegvidcmp_set_property / get_property --------------------- *)
(* the test `if (self->filter_graph)` that refuses a change *)
ChangeRefused == filter_graph.allocated

(* mutant: the method is stored without looking at the filter graph *)
set_property_method_unchecked(val) == val

(* case PROP_VIDCMP_METHOD: the method stored after the call *)
set_property_method(val) == IF ChangeRefused THEN method ELSE val

(* case PROP_STATS_FILE: the stats file stored after the call *)
set_property_stats_file(val) == IF ChangeRefused THEN stats_file ELSE val

PropValues(prop) == IF prop = "method" THEN Methods ELSE StatsFiles

(* GST_OBJECT_LOCK of set_property *)
SetPropertyEnter ==
  \E prop \in {"method", "stats-file"} :
    \E val \in PropValues(prop) :
      /\ ~crashed /\ pc["app"] = "idle"
      /\ lock = "none"
      /\ lock' = "app"
      /\ req' = [op |-> "set", prop |-> prop, val |-> val]
      /\ pc' = [pc EXCEPT !["app"] = "set"]
      /\ UNCHANGED <<elem, avv, crashed, eos, aggv, appret, padv>>

(* the switch of set_property, with its warning when the change is refused;
   appret keeps the value asked for and the value stored before the call   *)
SetPropertyBody ==
  /\ ~crashed /\ pc["app"] = "set"
  /\ IF req.prop = "method"
     THEN /\ method' = set_property_method(req.val)
          /\ stats_file' = stats_file
     ELSE /\ stats_file' = set_property_stats_file(req.val)
          /\ method' = method
  /\ appret' = [op |-> "set", prop |-> req.prop, val |-> req.val,
                old |-> IF req.prop = "method" THEN method ELSE stats_file]
  /\ req' = NoReq
  /\ pc' = [pc EXCEPT !["app"] = "unlock"]
  /\ UNCHANGED <<geom, ctxs, avv, lock, crashed, eos, aggv, padv>>

(* GST_OBJECT_LOCK of get_property *)
GetPropertyEnter ==
  \E prop \in {"method", "stats-file"} :
    /\ ~crashed /\ pc["app"] = "idle"
    /\ lock = "none"
    /\ lock' = "app"
    /\ req' = [op |-> "get", prop |-> prop, val |-> 0]
    /\ pc' = [pc EXCEPT !["app"] = "get"]
    /\ UNCHANGED <<elem, avv, crashed, eos, aggv, appret, padv>>

(* the switch of get_property *)
GetPropertyBody ==
  /\ ~crashed /\ pc["app"] = "get"
  /\ appret' = [op |-> "get", prop |-> req.prop,
                val |-> IF req.prop = "method" THEN method ELSE stats_file,
                old |-> IF req.prop = "method" THEN method ELSE stats_file]
  /\ req' = NoReq
  /\ pc' = [pc EXCEPT !["app"] = "unlock"]
  /\ UNCHANGED <<elem, avv, lock, crashed, eos, aggv, padv>>

(* GST_OBJECT_UNLOCK at the end of set_property and get_property; the
   caller takes the answer                                                 *)
PropertyUnlock ==
  /\ ~crashed /\ pc["app"] = "unlock"
  /\ lock' = "none"
  /\ appret' = NoRet
  /\ pc' = [pc EXCEPT !["app"] = "idle"]
  /\ UNCHANGED <<elem, avv, crashed, eos, aggv, req, padv>>

(* ---- child proxy ------------------------------------------------------- *)
(* get_child_by_index and get_children_count: GST_OBJECT_LOCK *)
ChildProxyEnter ==
  \E op \in {"get_child_by_index", "get_children_count"} :
    /\ ~crashed /\ pc["app"] = "idle"
    /\ lock = "none"
    /\ lock' = "app"
    /\ req' = [op |-> op, prop |-> "none", val |-> 0]
    /\ pc' = [pc EXCEPT !["app"] = "child"]
    /\ UNCHANGED <<elem, avv, crashed, eos, aggv, appret, padv>>

(* the pad list is read, GST_OBJECT_UNLOCK, and the lookup returns *)
ChildProxyUnlock ==
  /\ ~crashed /\ pc["app"] = "child"
  /\ lock' = "none"
  /\ req' = NoReq
  /\ pc' = [pc EXCEPT !["app"] = "idle"]
  /\ UNCHANGED <<elem, avv, crashed, eos, aggv, appret, padv>>

(* ---- gst_ffmpegvidcmp_sink_event / gst_ffmpegvidcmp_setcaps ------------ *)
(* the negotiated format stored in the element *)
Geom ==
  [width |-> width, height |-> height, fps_num |-> fps_num,
   fps_denom |-> fps_denom, pixfmt |-> pixfmt]

(* mutant: the event goes to the parent handler whatever setcaps returned *)
sink_event_forwarded_always(setcaps_ok) == TRUE

(* case GST_EVENT_CAPS: the event reaches the parent handler only when
   setcaps returned TRUE                                                   *)
sink_event_forwarded(setcaps_ok) == setcaps_ok

(* what sink_event answers for a caps event: FALSE when the event is
   dropped, the parent handler's answer otherwise                          *)
sink_event_caps(parsed, setcaps_ok, parent_ret, old) ==
  [ret |-> IF sink_event_forwarded(setcaps_ok) THEN parent_ret ELSE FALSE,
   forwarded |-> sink_event_forwarded(setcaps_ok), kind |-> "caps",
   parsed |-> parsed, setcaps |-> setcaps_ok, old |-> old]

(* an event that is not a caps event goes to the parent handler; nothing
   of the element changes                                                  *)
SinkEventOther ==
  /\ ~crashed /\ pc["pad"] = "idle"
  /\ UNCHANGED vars

(* a caps event whose caps gst_video_info_from_caps cannot parse: setcaps
   returns FALSE before it takes the lock and the event is dropped; the
   handler touches nothing of the element, and its caller gets the answer
   sink_event_caps(FALSE, FALSE, ..)                                       *)
SinkEventCapsUnparsable ==
  /\ ~crashed /\ pc["pad"] = "idle"
  /\ UNCHANGED vars

(* a caps event with parsable caps arrives on sink pad p (0: the pad is not
   recorded; the handler makes no use of aggpad): GST_OBJECT_LOCK of setcaps *)
SetCapsEnterOn(p) ==
  \E caps \in VideoCaps :
    /\ ~crashed /\ pc["pad"] = "idle"
    /\ lock = "none"
    /\ lock' = "pad"
    /\ ev' = caps
    /\ evpad' = p
    /\ pc' = [pc EXCEPT !["pad"] = "setcaps"]
    /\ UNCHANGED <<elem, avv, crashed, eos, aggv, appv, evret, sinkcaps>>

SetCapsEnter == SetCapsEnterOn(0)

(* the same event, with the sink pad it arrived on recorded *)
SinkPadSetCapsEnter == \E p \in Pads : SetCapsEnterOn(p)

(* the fields setcaps stores from the parsed video info *)
setcaps_geom(vinfo) ==
  [width |-> vinfo.width, height |-> vinfo.height, fps_num |-> vinfo.fps_n,
   fps_denom |-> vinfo.fps_d,
   pixfmt |-> gst_ffmpeg_videoformat_to_pixfmt(vinfo.format)]

(* the body of setcaps up to its GST_OBJECT_UNLOCK: the fields are stored,
   and setcaps will answer FALSE when no pixel format was found; evret
   keeps that answer and the negotiated format of before the stores        *)
SetCapsBody ==
  /\ ~crashed /\ pc["pad"] = "setcaps"
  /\ width' = setcaps_geom(ev).width
  /\ height' = setcaps_geom(ev).height
  /\ fps_num' = setcaps_geom(ev).fps_num
  /\ fps_denom' = setcaps_geom(ev).fps_denom
  /\ pixfmt' = setcaps_geom(ev).pixfmt
  /\ evret' = [NoEvRet EXCEPT !.kind = "caps", !.parsed = TRUE,
                              !.setcaps = setcaps_geom(ev).pixfmt # AV_PIX_FMT_NONE,
                              !.old = Geom]
  /\ pc' = [pc EXCEPT !["pad"] = "unlock"]
  /\ UNCHANGED <<ctxs, props, avv, lock, crashed, eos, aggv, appv, ev, evpad,
                 sinkcaps>>

(* mutant: the unsupported-format path returns without unlocking *)
setcaps_unlock_leaks(setcaps_ok) == IF setcaps_ok THEN "none" ELSE "pad"

(* the owner of the object lock when setcaps returns: both of its paths
   unlock                                                                  *)
setcaps_unlock(setcaps_ok) == "none"

(* GST_OBJECT_UNLOCK of setcaps, on either path, and its return to
   sink_event, which goes on without the lock: to the parent handler when
   setcaps answered TRUE, to dropping the event otherwise                  *)
SetCapsUnlock ==
  /\ ~crashed /\ pc["pad"] = "unlock"
  /\ lock' = setcaps_unlock(evret.setcaps)
  /\ evret' = [evret EXCEPT !.old = NoGeom]
  /\ pc' = [pc EXCEPT !["pad"] = IF sink_event_forwarded(evret.setcaps)
                                 THEN "parent" ELSE "drop"]
  /\ UNCHANGED <<elem, avv, crashed, eos, aggv, appv, ev, evpad, sinkcaps>>

(* the parent handler is called and sink_event returns its answer; caps for
   which the answer is TRUE become the current caps of the pad             *)
SinkEventParent ==
  \E parent_ret \in BOOLEAN :
    /\ ~crashed /\ pc["pad"] = "parent"
    /\ sinkcaps' = IF evpad # 0
                      /\ sink_event_caps(TRUE, evret.setcaps, parent_ret, NoGeom).ret
                   THEN [sinkcaps EXCEPT ![evpad] = ev] ELSE sinkcaps
    /\ evpad' = 0
    /\ evret' = NoEvRet
    /\ ev' = NoCaps
    /\ pc' = [pc EXCEPT !["pad"] = "idle"]
    /\ UNCHANGED <<elem, avv, lock, crashed, eos, aggv, appv>>

(* gst_event_unref and return FALSE *)
SinkEventDrop ==
  /\ ~crashed /\ pc["pad"] = "drop"
  /\ evpad' = 0
  /\ evret' = NoEvRet
  /\ ev' = NoCaps
  /\ pc' = [pc EXCEPT !["pad"] = "idle"]
  /\ UNCHANGED <<elem, avv, lock, crashed, eos, aggv, appv, sinkcaps>>

(* ---- gst_ffmpegvidcmp_finalize / gst_ffmpegvidcmp_reset ---------------- *)
(* the fields of the element, and the frames queued in its filter graph *)
Elem ==
  [width |-> width, height |-> height, fps_num |-> fps_num,
   fps_denom |-> fps_denom, pixfmt |-> pixfmt, filter_graph |-> filter_graph,
   in1_ctx |-> in1_ctx, in2_ctx |-> in2_ctx, out_ctx |-> out_ctx,
   method |-> method, stats_file |-> stats_file, fifo1 |-> fifo1, fifo2 |-> fifo2]

(* mutant: the filter graph is not freed *)
ResetElem_keeps_graph(s) ==
  [s EXCEPT !.width = gst_ffmpegvidcmp_reset.width,
            !.height = gst_ffmpegvidcmp_reset.height,
            !.fps_num = gst_ffmpegvidcmp_reset.fps_num,
            !.fps_denom = gst_ffmpegvidcmp_reset.fps_denom,
            !.pixfmt = gst_ffmpegvidcmp_reset.pixfmt,
            !.in1_ctx = gst_ffmpegvidcmp_reset.in1_ctx,
            !.in2_ctx = gst_ffmpegvidcmp_reset.in2_ctx,
            !.out_ctx = gst_ffmpegvidcmp_reset.out_ctx]

(* the locked section of gst_ffmpegvidcmp_reset applied to the element s;
   avfilter_graph_free frees the frames queued in the graph with it        *)
ResetElem(s) ==
  [s EXCEPT !.width = gst_ffmpegvidcmp_reset.width,
            !.height = gst_ffmpegvidcmp_reset.height,
            !.fps_num = gst_ffmpegvidcmp_reset.fps_num,
            !.fps_denom = gst_ffmpegvidcmp_reset.fps_denom,
            !.pixfmt = gst_ffmpegvidcmp_reset.pixfmt,
            !.in1_ctx = gst_ffmpegvidcmp_reset.in1_ctx,
            !.in2_ctx = gst_ffmpegvidcmp_reset.in2_ctx,
            !.out_ctx = gst_ffmpegvidcmp_reset.out_ctx,
            !.filter_graph = gst_ffmpegvidcmp_reset.filter_graph,
            !.fifo1 = <<>>, !.fifo2 = <<>>]

(* the locked section of setcaps applied to the element s *)
SetCapsElem(s, vinfo) ==
  [s EXCEPT !.width = setcaps_geom(vinfo).width,
            !.height = setcaps_geom(vinfo).height,
            !.fps_num = setcaps_geom(vinfo).fps_num,
            !.fps_denom = setcaps_geom(vinfo).fps_denom,
            !.pixfmt = setcaps_geom(vinfo).pixfmt]

(* what a read through a pointer to the freed string s finds: the bytes
   that were there, or whatever the allocator has put in their place       *)
FreedString == "(freed)"
g_free(s) == {s, FreedString}

(* the last reference is dropped while no handler runs: finalize frees the
   stats file string, leaving the pointer in the field dangling, and calls
   reset, which takes the object lock                                      *)
FinalizeEnter ==
  \E freed \in g_free(stats_file) :
    /\ ~crashed /\ \A t \in Threads : pc[t] = "idle"
    /\ lock = "none"
    /\ stats_file' = freed
    /\ lock' = "app"
    /\ pc' = [pc EXCEPT !["app"] = "reset"]
    /\ UNCHANGED <<geom, ctxs, method, avv, crashed, eos, aggv, appv, padv>>

(* the stores of reset; appret keeps the element as it was before them *)
ResetBody ==
  /\ ~crashed /\ pc["app"] = "reset"
  /\ LET r == ResetElem(Elem) IN
     /\ width' = r.width /\ height' = r.height
     /\ fps_num' = r.fps_num /\ fps_denom' = r.fps_denom
     /\ pixfmt' = r.pixfmt
     /\ in1_ctx' = r.in1_ctx /\ in2_ctx' = r.in2_ctx /\ out_ctx' = r.out_ctx
     /\ filter_graph' = r.filter_graph
     /\ method' = r.method /\ stats_file' = r.stats_file
     /\ fifo1' = r.fifo1 /\ fifo2' = r.fifo2
  /\ appret' = [op |-> "reset", prop |-> "none", val |-> 0, old |-> Elem]
  /\ pc' = [pc EXCEPT !["app"] = "reset_unlock"]
  /\ UNCHANGED <<written, lock, crashed, eos, aggv, req, padv>>

(* GST_OBJECT_UNLOCK of reset; finalize ends and the element is gone: no
   thread uses it any more                                                 *)
ResetUnlock ==
  /\ ~crashed /\ pc["app"] = "reset_unlock"
  /\ lock' = "none"
  /\ appret' = NoRet
  /\ pc' = [t \in Threads |-> "finalized"]
  /\ UNCHANGED <<elem, avv, crashed, eos, aggv, req, padv>>

(* ---- the aggregator's pads -------------------------------------------- *)
(* an input reaches end-of-stream: it has no prepared frame from then on *)
SignalEos ==
  \E p \in Pads :
    /\ ~crashed /\ ~eos[p] /\ pc["agg"] # "finalized"
    /\ eos' = [eos EXCEPT ![p] = TRUE]
    /\ UNCHANGED <<elem, avv, lock, pc, crashed, aggv, appv, padv>>

Next ==
  \/ AggEnter
  \/ AggProcess
  \/ AggCopy
  \/ AggEos
  \/ AggDone
  \/ SetPropertyEnter
  \/ SetPropertyBody
  \/ GetPropertyEnter
  \/ GetPropertyBody
  \/ PropertyUnlock
  \/ ChildProxyEnter
  \/ ChildProxyUnlock
  \/ SinkEventOther
  \/ SinkEventCapsUnparsable
  \/ SetCapsEnter
  \/ SetCapsBody
  \/ SetCapsUnlock
  \/ SinkEventParent
  \/ SinkEventDrop
  \/ FinalizeEnter
  \/ ResetBody
  \/ ResetUnlock
  \/ SignalEos

Spec == Init /\ [][Next]_vars

(* The element in a pipeline whose application leaves the two properties at
   their defaults, with the sink pad of every caps event recorded.          *)
NextPads ==
  \/ AggEnter
  \/ AggProcess
  \/ AggCopy
  \/ AggEos
  \/ AggDone
  \/ SinkPadSetCapsEnter
  \/ SetCapsBody
  \/ SetCapsUnlock
  \/ SinkEventParent
  \/ SinkEventDrop
  \/ SignalEos

SpecPads == Init /\ [][NextPads]_vars

(***************************************************************************)
(* Properties                                                              *)
(***************************************************************************)
HasRef == prepared[1] # NoFrame
HasCmp == prepared[2] # NoFrame
GraphUsable == filter_graph.allocated /\ in1_ctx /\ in2_ctx /\ out_ctx
PropNow(prop) == IF prop = "method" THEN method ELSE stats_file
SetAnswered == pc["app"] = "unlock" /\ appret.op = "set"

(* C1 as stated: once a first pair has been processed, a set of method or
   stats-file leaves the stored value as it was at the first pair, and every
   line written afterwards carries the method and the stats file that were
   in effect at the first pair.                                            *)
C1_Stated ==
  first # NoFirst =>
    /\ method = first.method
    /\ stats_file = first.stats_file
    /\ written # NoLine =>
         /\ written.method = EnumNick(first.method)
         /\ written.stats_file = first.stats_file

(* C1 amended: once the filter graph has been allocated, a set of method or
   stats-file is refused and leaves the stored value unchanged, the stored
   values are those the graph was built with, and every line written carries
   the method and the stats file the graph was built with, until finalize
   frees the element.                                                      *)
C1_Amended ==
  (filter_graph.allocated /\ pc["app"] # "reset") =>
    /\ EnumNick(method) = filter_graph.method
    /\ stats_file = filter_graph.stats_file
    /\ SetAnswered => PropNow(appret.prop) = appret.old
    /\ written # NoLine =>
         /\ written.method = filter_graph.method
         /\ written.stats_file = filter_graph.stats_file

(* a set that asked for another value was refused after a line was written
   through the graph                                                       *)
C1_Witness ==
  /\ filter_graph.allocated /\ first # NoFirst
  /\ SetAnswered /\ appret.val # appret.old
  /\ PropNow(appret.prop) = appret.old

(* C2 as stated: every comparison pairs the frame of input 1 and the frame
   of input 2 that arrived in the same aggregate call.                     *)
C2_Stated ==
  written # NoLine =>
    /\ written.ref.pad = 1 /\ written.cmp.pad = 2
    /\ written.ref.n = written.cmp.n

(* C3: in a call with both frames whose output buffer was mapped, the output
   holds a copy of the reference frame of this call and the reference frame
   is as it arrived; the output never holds any other frame.               *)
C3_ForwardsReference ==
  /\ outbuf \in {NoFrame, Frame(1, calls)}
  /\ (pc["agg"] = "done" /\ HasRef /\ HasCmp /\ res = "GST_FLOW_OK") =>
       /\ outbuf = Frame(1, calls)
       /\ prepared[1] = Frame(1, calls)
       /\ prepared[2] = Frame(2, calls)

(* the second call forwarded its own reference frame *)
C3_Witness ==
  /\ pc["agg"] = "done" /\ HasRef /\ HasCmp /\ res = "GST_FLOW_OK"
  /\ calls = 2 /\ outbuf = Frame(1, 2)

(* C4 as stated: a call whose metric computation failed, and whose output
   buffer could be mapped, has forwarded the reference frame when it ends
   (by returning, or by the death of the process).                         *)
C4_Stated ==
  (\/ crashed
   \/ (pc["agg"] = "done" /\ procres \in {"failed", "init_failed"}
       /\ res # "GST_FLOW_ERROR"))
    => outbuf = prepared[1]

(* C5: a call in which an input at end-of-stream has no frame runs no
   comparison, writes no line, forwards nothing and ends with
   GST_FLOW_EOS, whether or not the other input has a frame.               *)
C5_EndOfStream ==
  (pc["agg"] \in {"frames", "map", "done"}
   /\ \E p \in Pads : eos[p] /\ prepared[p] = NoFrame) =>
    /\ procres = "none"
    /\ written = NoLine
    /\ outbuf = NoFrame
    /\ pc["agg"] # "map"
    /\ pc["agg"] = "done" => res = "GST_FLOW_EOS"

(* input 1 is at end-of-stream, input 2 still delivers a frame, on a call
   after the first                                                         *)
C5_Witness ==
  /\ pc["agg"] = "done" /\ res = "GST_FLOW_EOS"
  /\ eos[1] /\ ~HasRef /\ HasCmp /\ calls = 2

(* C6 as stated: a call with a missing frame while no input is at
   end-of-stream does not end with GST_FLOW_EOS.                           *)
C6_Stated ==
  (pc["agg"] = "done" /\ ~eos[1] /\ ~eos[2] /\ ~(HasRef /\ HasCmp))
    => res # "GST_FLOW_EOS"

(* C6 amended: a call with a missing frame ends with GST_FLOW_EOS also when
   no input is at end-of-stream; it runs no comparison, writes no line and
   forwards nothing.                                                       *)
C6_Amended ==
  (pc["agg"] = "done" /\ ~eos[1] /\ ~eos[2] /\ ~(HasRef /\ HasCmp)) =>
    /\ res = "GST_FLOW_EOS"
    /\ procres = "none" /\ written = NoLine /\ outbuf = NoFrame

(* only input 2 has no frame, and nothing is at end-of-stream *)
C6_Witness ==
  /\ pc["agg"] = "done" /\ ~eos[1] /\ ~eos[2]
  /\ HasRef /\ ~HasCmp /\ res = "GST_FLOW_EOS"

(* C7 as stated: at every comparison the negotiated geometry is the
   geometry the filter graph was built with.                               *)
C7_Stated ==
  (pc["agg"] \in {"map", "done"} /\ procres = "ok") =>
    /\ filter_graph.width = width
    /\ filter_graph.height = height
    /\ filter_graph.pixfmt = pixfmt

(* C8 as stated: while the metric of a pair is about to be computed, the
   object lock is not held by aggregate_frames.                            *)
C8_Stated ==
  (pc["agg"] = "frames" /\ HasRef /\ HasCmp) => lock # "agg"

(* C8 amended: aggregate_frames holds the object lock from its entry to its
   return, the metric computation included; meanwhile no property set,
   property get or caps handler is inside its locked section.              *)
C8_Amended ==
  pc["agg"] \in {"frames", "map", "done"} =>
    /\ lock = "agg"
    /\ pc["app"] = "idle"
    /\ pc["pad"] \notin {"setcaps", "unlock"}

(* a pair is about to be compared under the lock *)
C8_Witness ==
  pc["agg"] = "frames" /\ HasRef /\ HasCmp /\ lock = "agg"

(* C9 as stated: after a filter graph set-up that failed once the graph was
   allocated, the process stays alive and no later pair logs a failure.    *)
C9_Stated ==
  (filter_graph.allocated /\ ~GraphUsable) =>
    /\ ~crashed
    /\ procres # "failed"

(* C10 as stated: nothing that fails while a pair is driven ends the
   process, and a call with both frames returns GST_FLOW_OK.               *)
C10_Stated ==
  /\ ~crashed
  /\ (pc["agg"] = "done" /\ HasRef /\ HasCmp) => res = "GST_FLOW_OK"

(* C11: a caps event whose caps cannot be parsed, or whose format has no
   pixel format, makes sink_event return FALSE without handing the event to
   the parent handler; a caps event with a supported format is handed to
   the parent handler.                                                     *)
C11_CapsEventRouting ==
  /\ (pc["pad"] \in {"unlock", "parent", "drop"}) =>
       /\ evret.kind = "caps" /\ evret.parsed
       /\ pixfmt = setcaps_geom(ev).pixfmt
       /\ pixfmt = AV_PIX_FMT_NONE =>
            /\ ~evret.setcaps /\ pc["pad"] # "parent"
            /\ \A parent_ret \in BOOLEAN :
                 LET answer == sink_event_caps(TRUE, evret.setcaps, parent_ret, NoGeom)
                 IN ~answer.ret /\ ~answer.forwarded
       /\ pixfmt # AV_PIX_FMT_NONE => (evret.setcaps /\ pc["pad"] # "drop")
  /\ (pc["pad"] = "idle" /\ ~crashed) =>
       \A parent_ret \in BOOLEAN :
         LET answer == sink_event_caps(FALSE, FALSE, parent_ret, Geom) IN
         ~answer.ret /\ ~answer.forwarded

(* setcaps has unlocked and answered FALSE for caps with a format that has
   no pixel format, and sink_event is dropping the event                   *)
C11_Witness ==
  /\ pc["pad"] = "drop" /\ evret.kind = "caps" /\ evret.parsed
  /\ ev.format = "ENCODED" /\ ~evret.setcaps /\ lock # "pad"

(* the two caps carry a different width, height or pixel format *)
Disagree(c1, c2) ==
  \/ c1.width # c2.width
  \/ c1.height # c2.height
  \/ setcaps_geom(c1).pixfmt # setcaps_geom(c2).pixfmt

(* C12 as stated: caps that arrive on one input and disagree with the caps
   accepted on the other input are rejected by setcaps, and a filter graph
   is never built with the geometry of input 2 while input 1 has accepted
   caps with another geometry.                                             *)
C12_Stated ==
  /\ (pc["pad"] = "unlock" /\ evpad # 0 /\ sinkcaps[3 - evpad] # NoCaps
       /\ Disagree(ev, sinkcaps[3 - evpad])) => ~evret.setcaps
  /\ (filter_graph.allocated /\ sinkcaps[1] # NoCaps /\ sinkcaps[2] # NoCaps
       /\ Disagree(sinkcaps[1], sinkcaps[2])) =>
         ~(/\ filter_graph.width = sinkcaps[2].width
           /\ filter_graph.height = sinkcaps[2].height
           /\ filter_graph.pixfmt = setcaps_geom(sinkcaps[2]).pixfmt)

(* C13: after reset the width and height are -1, the framerate is 0/1, the
   pixel format is none, the filter graph and its three contexts are absent
   and the method and the stats file are those of before; a second reset
   changes nothing; and reset followed by setcaps with caps X, done a second
   time, leaves the element as it was after the first time.                *)
C13_ResetConfigure ==
  pc["app"] = "reset_unlock" =>
    /\ width = -1 /\ height = -1 /\ fps_num = 0 /\ fps_denom = 1
    /\ pixfmt = AV_PIX_FMT_NONE
    /\ ~filter_graph.allocated /\ ~in1_ctx /\ ~in2_ctx /\ ~out_ctx
    /\ method = appret.old.method /\ stats_file = appret.old.stats_file
    /\ ResetElem(Elem) = Elem
    /\ \A X \in VideoCaps :
         LET once == SetCapsElem(Elem, X) IN
         SetCapsElem(ResetElem(once), X) = once

(* reset ran on an element with a negotiated format, a usable filter graph
   and a frame left in the graph's first input                             *)
C13_Witness ==
  /\ pc["app"] = "reset_unlock" /\ ~filter_graph.allocated /\ width = -1
  /\ appret.old.filter_graph.allocated /\ appret.old.in1_ctx
  /\ appret.old.width = 32 /\ appret.old.fifo1 # <<>>
  /\ appret.old.method = GST_FFMPEGVIDCMP_METHOD_PSNR

(* C14 as stated: the filter graph is never present while one of its three
   contexts is absent, so that frames are only ever fed to a graph whose
   contexts are all set.                                                   *)
C14_Stated ==
  /\ filter_graph.allocated => (in1_ctx /\ in2_ctx /\ out_ctx)
  /\ (fifo1 # <<>> \/ fifo2 # <<>> \/ written # NoLine) => GraphUsable

(* the positions of a thread inside a section that holds the object lock *)
LockedSection(t) ==
  IF t = "agg" THEN {"frames", "map", "done"}
  ELSE IF t = "app" THEN {"set", "get", "unlock", "child", "reset", "reset_unlock"}
  ELSE {"setcaps", "unlock"}

(* C15: a thread holds the object lock exactly while it is inside the locked
   section of reset, setcaps, aggregate_frames, set_property, get_property
   or a child-proxy lookup: the lock is released on every path by which
   they return, none takes it while holding it, and as long as the process
   lives the holder of the lock always has a next step.                    *)
C15_LockDiscipline ==
  /\ \A t \in Threads : (lock = t) <=> (pc[t] \in LockedSection(t))
  /\ (lock = "agg" /\ ~crashed) => ENABLED (AggProcess \/ AggCopy \/ AggEos \/ AggDone)
  /\ (lock = "app" /\ ~crashed) =>
       ENABLED (SetPropertyBody \/ GetPropertyBody \/ PropertyUnlock
                \/ ChildProxyUnlock \/ ResetBody \/ ResetUnlock)
  /\ (lock = "pad" /\ ~crashed) => ENABLED (SetCapsBody \/ SetCapsUnlock)

(* after setcaps returned on its unsupported-format path, set_property took
   the lock and refused a change                                           *)
C15_Witness ==
  /\ pixfmt = AV_PIX_FMT_NONE /\ width = 16 /\ pc["pad"] = "idle"
  /\ lock = "app" /\ SetAnswered /\ filter_graph.allocated
  /\ appret.val # appret.old

(* C16 as stated: when setcaps has answered FALSE, the negotiated width,
   height, framerate and pixel format are those of before the caps event.  *)
C16_Stated ==
  (pc["pad"] = "unlock" /\ evret.kind = "caps" /\ ~evret.setcaps)
    => Geom = evret.old

====
